---- MODULE Spec2Model ----
(***************************************************************************)
(* Model of the SSH session/channel dispatcher of src/main.go: the         *)
(* channel-open loop of handleConn (the connection supervisor), the        *)
(* per-channel goroutine with its request loop (the channel session        *)
(* controller), the relay goroutines it starts, the blocking cmd.Wait and  *)
(* sendExitStatus.  The peer, the operating system's processes and the     *)
(* pseudo-terminal device are the environment.                             *)
(***************************************************************************)
EXTENDS Integers, Sequences, FiniteSets, TLC

\* Bound of the model: the messages the peer sends on the connection
\* (channel-opens, channel requests, data, EOF, close), over all channels.
MaxMsgs == 4

\* Channels are numbered in the order they are accepted.
Chan == 1..MaxMsgs

\* Channel types a peer may ask for (main.go:94 accepts only "session").
ChannelTypes == {"session", "direct-tcpip"}

\* (columns, rows) pairs carried by pty-req and window-change payloads:
\* an ordinary size, a size with a zero, a size whose columns exceed 16 bits.
Geoms == {<<80, 24>>, <<0, 24>>, <<65616, 30>>}

\* Payload kinds: "empty" has length 0, "valid" parses under the struct of
\* its request type, "garbage" is non-empty and does not parse.
Req(t, p, g) == [type |-> t, payload |-> p, cols |-> g[1], rows |-> g[2]]

Requests ==
    {Req(t, "valid", g) : t \in {"pty-req", "window-change"}, g \in Geoms}
    \cup {Req(t, "garbage", <<0, 0>>) : t \in {"pty-req", "window-change", "shell"}}
    \cup {Req(t, "empty", <<0, 0>>) : t \in {"shell", "exec", "env"}}
    \cup {Req("exec", "valid", <<0, 0>>)}

\* ssh.Unmarshal(req.Payload, &p) returns nil: an empty payload does not
\* parse under any of the three structs (each has at least one field).
Unmarshal(r) == r.payload = "valid"

\* len(req.Payload)
PayloadLen(r) == IF r.payload = "empty" THEN 0 ELSE 1

\* Termination results of a process: a normal exit with a code, or a signal.
ExitCodes == {0, 7}
Outcomes == {[kind |-> "exit", code |-> n] : n \in ExitCodes}
            \cup {[kind |-> "signal", code |-> 9]}
NoOutcome == [kind |-> "none", code |-> 0]

VARIABLES
    chans,      \* channel-open events not yet taken by the supervisor loop
    nSent,      \* messages the peer has sent
    openLog,    \* what the supervisor did with each channel-open event
    sess        \* per channel: the controller's locals and what it owns

vars == <<chans, nSent, openLog, sess>>

\* The state of a channel slot before any channel is accepted into it.
NoSession ==
    [pc |-> "none", controllers |-> 0,
     ptyRequested |-> FALSE, ptyCols |-> 0, ptyRows |-> 0, ptyFile |-> "nil",
     handle |-> "none", winsize |-> <<0, 0>>, mode |-> "none",
     proc |-> "none", outcome |-> NoOutcome,
     spawned |-> 0, startErrs |-> 0,
     outBuf |-> FALSE, outCopy |-> "none",
     inPending |-> "none", inCopy |-> "none",
     reqs |-> <<>>, handled |-> <<>>, sent |-> <<>>, exitPayload |-> <<>>,
     peerClosed |-> FALSE]

Init ==
    /\ chans = <<>>
    /\ nSent = 0
    /\ openLog = <<>>
    /\ sess = [c \in Chan |-> NoSession]

\* Number of channels accepted so far; the next one gets the next slot.
Accepted == Cardinality({c \in Chan : sess[c].pc # "none"})


(***************************************************************************)
(* Pure helpers: conversions and library calls, computed as the code does. *)
(***************************************************************************)

\* Mutant of U16: a value that does not fit 16 bits is clamped to 65535
\* instead of being truncated.
U16_Saturates(x) == IF x > 65535 THEN 65535 ELSE x

\* uint16(x) for a uint32 x (main.go:148, 178).
U16(x) == x % 65536

\* pty.Setsize(f, &pty.Winsize{Cols: uint16(cols), Rows: uint16(rows)}):
\* the size the terminal device has afterwards.
Setsize(cols, rows) == <<U16(cols), U16(rows)>>

\* Mutant of ExitStatus: the raw wait status, whose bits 8-15 hold the exit
\* code, taken for the exit code.
ExitStatus_RawWaitStatus(o) == IF o.kind = "exit" THEN o.code * 256 ELSE o.code

\* syscall.WaitStatus.ExitStatus(): the exit code of a process that exited,
\* -1 for one that was signaled.
ExitStatus(o) == IF o.kind = "exit" THEN o.code ELSE -1

\* The four big-endian bytes of a value in 0 .. 2^31 - 1.
BE31(v) == <<v \div 16777216, (v \div 65536) % 256, (v \div 256) % 256, v % 256>>

\* ssh.Marshal(exitStatus{Status: uint32(status)}): the two's complement
\* conversion of an int to 32 bits, then four big-endian bytes.
MarshalStatus(status) ==
    IF status >= 0
    THEN BE31(status)
    ELSE LET low == BE31((status + 2147483647) + 1)
         IN  <<low[1] + 128, low[2], low[3], low[4]>>

\* req.Reply(ok, nil)
Reply(s, ok) == [s EXCEPT !.sent = Append(@, IF ok THEN "ok" ELSE "fail")]

\* sendExitStatus(ch, status)
sendExitStatus(s, status) ==
    [s EXCEPT !.sent = Append(@, "exit-status"),
              !.exitPayload = MarshalStatus(status)]

\* The error cmd.Wait returns: an *exec.ExitError for a non-zero exit or a
\* signal; with a successful exit, the error of an output copy that failed
\* (exec only: cmd.Stdout is the channel, copied by a goroutine of os/exec);
\* nil otherwise.
WaitErr(s) ==
    IF s.outcome.kind = "signal" \/ s.outcome.code # 0 THEN "ExitError"
    ELSE IF s.mode = "exec" /\ s.outCopy = "error" THEN "other"
    ELSE "nil"

(***************************************************************************)
(* The request handlers of the controller, as functions of the session     *)
(* (the request already taken from the request stream) and the request.    *)
(***************************************************************************)

\* Mutant of PtyReqHandler: a geometry recorded by an earlier resize is kept
\* instead of being overwritten by the columns and rows of the pty-req.
PtyReqHandler_KeepsGeometry(s, r) ==
    IF ~Unmarshal(r)
    THEN Reply(s, FALSE)
    ELSE Reply([s EXCEPT !.ptyRequested = TRUE,
                         !.ptyCols = IF @ > 0 THEN @ ELSE r.cols,
                         !.ptyRows = IF @ > 0 THEN @ ELSE r.rows], TRUE)

\* case "pty-req" (main.go:117-134)
PtyReqHandler(s, r) ==
    IF ~Unmarshal(r)
    THEN Reply(s, FALSE)
    ELSE Reply([s EXCEPT !.ptyRequested = TRUE,
                         !.ptyCols = r.cols,
                         !.ptyRows = r.rows], TRUE)

\* Mutant of WindowChangeHandler: the request is answered like the others,
\* with true when the payload parsed and with false when it did not.
WindowChangeHandler_Replies(s, r) ==
    IF Unmarshal(r)
    THEN Reply([s EXCEPT !.ptyCols = r.cols,
                         !.ptyRows = r.rows,
                         !.winsize = IF s.ptyFile # "nil"
                                     THEN Setsize(r.cols, r.rows) ELSE @], TRUE)
    ELSE Reply(s, FALSE)

\* Mutant of WindowChangeHandler: the error of ssh.Unmarshal is ignored and
\* the fields of the payload struct are recorded whether or not it parsed.
WindowChangeHandler_IgnoresUnmarshalError(s, r) ==
    [s EXCEPT !.ptyCols = r.cols,
              !.ptyRows = r.rows,
              !.winsize = IF s.ptyFile # "nil"
                          THEN Setsize(r.cols, r.rows) ELSE @]

\* case "window-change" (main.go:136-151): no reply
WindowChangeHandler(s, r) ==
    IF Unmarshal(r)
    THEN [s EXCEPT !.ptyCols = r.cols,
                   !.ptyRows = r.rows,
                   !.winsize = IF s.ptyFile # "nil"
                               THEN Setsize(r.cols, r.rows) ELSE @]
    ELSE s

\* Mutant of Started: the wait for the process is left to a goroutine and the
\* controller goes on with its request loop.
Started_KeepsLooping(s, m) ==
    [s EXCEPT !.mode = m, !.proc = "running", !.spawned = @ + 1,
              !.outCopy = "running", !.inCopy = "running", !.pc = "loop"]

\* A started process with its relay goroutines, the controller in cmd.Wait.
Started(s, m) ==
    [s EXCEPT !.mode = m, !.proc = "running", !.spawned = @ + 1,
              !.outCopy = "running", !.inCopy = "running", !.pc = "wait"]

\* Mutant of ShellHandler: the terminal-requested flag is not consulted and
\* the shell is always started with pipes.
ShellHandler_IgnoresPtyRequest(s, r, startOk) ==
    IF PayloadLen(r) # 0
    THEN Reply(s, FALSE)
    ELSE IF ~startOk
    THEN Reply([s EXCEPT !.startErrs = @ + 1], FALSE)
    ELSE Started(Reply(s, TRUE), "pipe")

\* case "shell" (main.go:153-222); startOk is the result of pty.Start
\* (terminal allocation and process start) or of cmd.Start.
ShellHandler(s, r, startOk) ==
    IF PayloadLen(r) # 0
    THEN Reply(s, FALSE)
    ELSE IF ~startOk
    THEN Reply([s EXCEPT !.startErrs = @ + 1], FALSE)
    ELSE IF s.ptyRequested
    THEN Started(Reply([s EXCEPT !.ptyFile = "f",
                                 !.handle = "open",
                                 !.winsize = IF s.ptyCols > 0 /\ s.ptyRows > 0
                                             THEN Setsize(s.ptyCols, s.ptyRows)
                                             ELSE <<0, 0>>], TRUE), "pty")
    ELSE Started(Reply(s, TRUE), "pipe")

\* Mutant of ExecHandler: like the shell case, the command is started on a
\* terminal when a pty-req was accepted before.
ExecHandler_UsesPty(s, r, startOk) ==
    IF ~Unmarshal(r)
    THEN Reply(s, FALSE)
    ELSE IF ~startOk
    THEN Reply([s EXCEPT !.startErrs = @ + 1], FALSE)
    ELSE IF s.ptyRequested
    THEN Started(Reply([s EXCEPT !.ptyFile = "f", !.handle = "open"], TRUE), "exec")
    ELSE Started(Reply(s, TRUE), "exec")

\* Mutant of ExecHandler: a failed cmd.Start ends the handler with return
\* instead of continue, so the deferred close of the channel runs.
ExecHandler_ReturnsOnStartError(s, r, startOk) ==
    IF ~Unmarshal(r)
    THEN Reply(s, FALSE)
    ELSE IF ~startOk
    THEN Reply([s EXCEPT !.startErrs = @ + 1, !.pc = "exit"], FALSE)
    ELSE Started(Reply(s, TRUE), "exec")

\* case "exec" (main.go:224-249); startOk is the result of cmd.Start.
ExecHandler(s, r, startOk) ==
    IF ~Unmarshal(r)
    THEN Reply(s, FALSE)
    ELSE IF ~startOk
    THEN Reply([s EXCEPT !.startErrs = @ + 1], FALSE)
    ELSE Started(Reply(s, TRUE), "exec")

\* default (main.go:251-253)
DefaultHandler(s, r) == Reply(s, FALSE)

\* Mutant of AfterWait: after sending the exit-status the handler goes on
\* with the request loop (continue) instead of returning.
AfterWait_Continues(s) ==
    LET t == [s EXCEPT !.pc = "loop",
                       !.outCopy = IF s.mode = "pipe" THEN "error" ELSE @,
                       !.inCopy = IF s.mode = "pipe" THEN "done" ELSE @]
    IN  CASE WaitErr(s) = "nil" -> sendExitStatus(t, 0)
          [] WaitErr(s) = "ExitError" -> sendExitStatus(t, ExitStatus(s.outcome))
          [] OTHER -> t

\* cmd.Wait has returned: the exit-status the controller sends, if any
\* (main.go:188-197, 213-221, 240-248).  In the pipe mode Wait has closed
\* the pipes the relay goroutines read and write.
AfterWait(s) ==
    LET t == [s EXCEPT !.pc = "exit",
                       !.outCopy = IF s.mode = "pipe" THEN "error" ELSE @,
                       !.inCopy = IF s.mode = "pipe" THEN "done" ELSE @]
    IN  CASE WaitErr(s) = "nil" -> sendExitStatus(t, 0)
          [] WaitErr(s) = "ExitError" -> sendExitStatus(t, ExitStatus(s.outcome))
          [] OTHER -> t

\* cmd.Wait can return: the process has exited and, in the exec mode, the
\* goroutines os/exec runs to copy the channel to the command's standard
\* input and the command's output to the channel have stopped.
WaitCanReturn(s) ==
    /\ s.proc = "exited"
    /\ s.mode = "exec" => /\ s.inCopy = "done"
                          /\ s.outCopy \in {"eof", "error"}

(***************************************************************************)
(* The connection supervisor: the channel-open loop of handleConn.         *)
(***************************************************************************)

\* Mutant of OpenResult: the channel type is not looked at.
OpenResult_AnyType(t, acceptOk) ==
    IF acceptOk THEN "accepted" ELSE "accept-error"

\* What the loop does with a channel-open event of type t when Accept
\* succeeds (acceptOk) or fails.
OpenResult(t, acceptOk) ==
    IF t # "session" THEN "UnknownChannelType"
    ELSE IF acceptOk THEN "accepted" ELSE "accept-error"

\* One iteration of `for newChannel := range chans` (main.go:93-256).
HandleNewChannel ==
    /\ chans # <<>>
    /\ \E acceptOk \in BOOLEAN :
         LET t == Head(chans)
             res == OpenResult(t, acceptOk)
             c == Accepted + 1
         IN  /\ chans' = Tail(chans)
             /\ openLog' = Append(openLog, <<t, res>>)
             /\ sess' = IF res = "accepted"
                        THEN [sess EXCEPT ![c].pc = "loop",
                                          ![c].controllers = @ + 1]
                        ELSE sess
    /\ UNCHANGED nSent

(***************************************************************************)
(* The channel session controller: the goroutine of main.go:105-255.       *)
(***************************************************************************)

\* The request `for req := range reqs` delivers next.
NextReq(c, t) ==
    /\ sess[c].pc = "loop"
    /\ sess[c].reqs # <<>>
    /\ Head(sess[c].reqs).type = t

\* The session with that request taken from the stream.
Taken(c) == [sess[c] EXCEPT !.reqs = Tail(@),
                            !.handled = Append(@, Head(sess[c].reqs))]

PtyReq(c) ==
    /\ NextReq(c, "pty-req")
    /\ sess' = [sess EXCEPT ![c] = PtyReqHandler(Taken(c), Head(sess[c].reqs))]
    /\ UNCHANGED <<chans, nSent, openLog>>

WindowChange(c) ==
    /\ NextReq(c, "window-change")
    /\ sess' = [sess EXCEPT ![c] = WindowChangeHandler(Taken(c), Head(sess[c].reqs))]
    /\ UNCHANGED <<chans, nSent, openLog>>

Shell(c) ==
    /\ NextReq(c, "shell")
    /\ \E startOk \in BOOLEAN :
         sess' = [sess EXCEPT ![c] = ShellHandler(Taken(c), Head(sess[c].reqs), startOk)]
    /\ UNCHANGED <<chans, nSent, openLog>>

Exec(c) ==
    /\ NextReq(c, "exec")
    /\ \E startOk \in BOOLEAN :
         sess' = [sess EXCEPT ![c] = ExecHandler(Taken(c), Head(sess[c].reqs), startOk)]
    /\ UNCHANGED <<chans, nSent, openLog>>

Default(c) ==
    /\ sess[c].pc = "loop"
    /\ sess[c].reqs # <<>>
    /\ Head(sess[c].reqs).type \notin {"pty-req", "window-change", "shell", "exec"}
    /\ sess' = [sess EXCEPT ![c] = DefaultHandler(Taken(c), Head(sess[c].reqs))]
    /\ UNCHANGED <<chans, nSent, openLog>>

\* Mutant of LoopEnd: a channel whose request stream ends is sent an
\* exit-status of 0 before it is closed, whether or not a process ran.
LoopEnd_SendsExitStatus(c) ==
    /\ sess[c].pc = "loop"
    /\ sess[c].reqs = <<>>
    /\ sess[c].peerClosed
    /\ sess' = [sess EXCEPT ![c] = [sendExitStatus(sess[c], 0) EXCEPT !.pc = "exit"]]
    /\ UNCHANGED <<chans, nSent, openLog>>

\* The request stream has ended (the peer closed the channel) and is
\* drained: the loop ends and the goroutine returns (main.go:115, 254-255).
LoopEnd(c) ==
    /\ sess[c].pc = "loop"
    /\ sess[c].reqs = <<>>
    /\ sess[c].peerClosed
    /\ sess' = [sess EXCEPT ![c].pc = "exit"]
    /\ UNCHANGED <<chans, nSent, openLog>>

\* cmd.Wait returns, the exit status is sent, the handler returns.
Wait(c) ==
    /\ sess[c].pc = "wait"
    /\ WaitCanReturn(sess[c])
    /\ sess' = [sess EXCEPT ![c] = AfterWait(sess[c])]
    /\ UNCHANGED <<chans, nSent, openLog>>

\* Mutant of Close: the deferred call closes the connection instead of the
\* channel, which closes every other channel of the connection under its
\* controller.
Close_ClosesConnection(c) ==
    /\ sess[c].pc = "exit"
    /\ sess' = [d \in Chan |->
                  IF d = c
                  THEN [sess[d] EXCEPT !.pc = "done", !.sent = Append(@, "close")]
                  ELSE IF sess[d].pc # "none"
                  THEN [sess[d] EXCEPT !.peerClosed = TRUE]
                  ELSE sess[d]]
    /\ UNCHANGED <<chans, nSent, openLog>>

\* defer ch.Close() (main.go:106)
Close(c) ==
    /\ sess[c].pc = "exit"
    /\ sess' = [sess EXCEPT ![c].pc = "done", ![c].sent = Append(@, "close")]
    /\ UNCHANGED <<chans, nSent, openLog>>

(***************************************************************************)
(* The relay goroutines (main.go:184-185, 210-212; in the exec mode the    *)
(* copying goroutines of os/exec behind cmd.Stdin and cmd.Stdout).         *)
(***************************************************************************)

\* The channel takes writes: neither side has closed it.
Writable(s) == ~s.peerClosed /\ s.pc # "done"

\* Process output to the peer: io.Copy(ch, f), io.Copy(ch, stdout).  A read
\* returns the output there is; with none left and the process gone it
\* returns the end of the stream.  outBuf stays TRUE when the write to the
\* channel fails: that output never reaches the peer.
RelayOut(c) ==
    /\ sess[c].outCopy = "running"
    /\ sess[c].outBuf \/ sess[c].proc = "exited"
    /\ sess' = IF ~sess[c].outBuf
               THEN [sess EXCEPT ![c].outCopy = "eof"]
               ELSE IF Writable(sess[c])
               THEN [sess EXCEPT ![c].outBuf = FALSE]
               ELSE [sess EXCEPT ![c].outCopy = "error"]
    /\ UNCHANGED <<chans, nSent, openLog>>

\* Peer input to the process: io.Copy(f, ch), io.Copy(stdin, ch).  A read
\* of the channel returns the data the peer sent, or the end of the stream
\* after the peer's EOF or once the channel is closed; a write to a process
\* that has exited fails.
RelayIn(c) ==
    /\ sess[c].inCopy = "running"
    /\ sess[c].inPending # "none" \/ ~Writable(sess[c])
    /\ sess' = IF sess[c].inPending = "data" /\ sess[c].proc = "running"
               THEN [sess EXCEPT ![c].inPending = "none"]
               ELSE [sess EXCEPT ![c].inCopy = "done",
                                 ![c].inPending = IF @ = "data" THEN "none" ELSE @]
    /\ UNCHANGED <<chans, nSent, openLog>>

(***************************************************************************)
(* The environment: the runtime, the processes and the peer.               *)
(***************************************************************************)

\* No code closes the *os.File pty.Start returned (main.go:170-175): the
\* runtime's finalizer may close it once nothing refers to it any more,
\* that is once the controller and both relay goroutines have returned.
Unreferenced(s) ==
    /\ s.pc = "done"
    /\ s.inCopy = "done"
    /\ s.outCopy \in {"eof", "error"}

Finalize(c) ==
    /\ sess[c].handle = "open"
    /\ Unreferenced(sess[c])
    /\ sess' = [sess EXCEPT ![c].handle = "released"]
    /\ UNCHANGED <<chans, nSent, openLog>>

ProcWrite(c) ==
    /\ sess[c].proc = "running"
    /\ ~sess[c].outBuf
    /\ sess' = [sess EXCEPT ![c].outBuf = TRUE]
    /\ UNCHANGED <<chans, nSent, openLog>>

ProcExit(c) ==
    /\ sess[c].proc = "running"
    /\ \E o \in Outcomes :
         sess' = [sess EXCEPT ![c].proc = "exited", ![c].outcome = o]
    /\ UNCHANGED <<chans, nSent, openLog>>

PeerOpen ==
    /\ nSent < MaxMsgs
    /\ \E t \in ChannelTypes : chans' = Append(chans, t)
    /\ nSent' = nSent + 1
    /\ UNCHANGED <<openLog, sess>>

\* The channel is open as the peer sees it, and the peer has a message left.
PeerOpenChan(c) ==
    /\ sess[c].pc \notin {"none", "done"}
    /\ ~sess[c].peerClosed
    /\ nSent < MaxMsgs

PeerRequest(c) ==
    /\ PeerOpenChan(c)
    /\ \E r \in Requests : sess' = [sess EXCEPT ![c].reqs = Append(@, r)]
    /\ nSent' = nSent + 1
    /\ UNCHANGED <<chans, openLog>>

PeerData(c) ==
    /\ PeerOpenChan(c)
    /\ sess[c].inPending = "none"
    /\ sess' = [sess EXCEPT ![c].inPending = "data"]
    /\ nSent' = nSent + 1
    /\ UNCHANGED <<chans, openLog>>

PeerEOF(c) ==
    /\ PeerOpenChan(c)
    /\ sess[c].inPending = "none"
    /\ sess' = [sess EXCEPT ![c].inPending = "eof"]
    /\ nSent' = nSent + 1
    /\ UNCHANGED <<chans, openLog>>

PeerClose(c) ==
    /\ PeerOpenChan(c)
    /\ sess' = [sess EXCEPT ![c].peerClosed = TRUE]
    /\ nSent' = nSent + 1
    /\ UNCHANGED <<chans, openLog>>

Controller(c) ==
    \/ PtyReq(c) \/ WindowChange(c) \/ Shell(c) \/ Exec(c) \/ Default(c)
    \/ LoopEnd(c) \/ Wait(c) \/ Close(c)

Relay(c) == RelayOut(c) \/ RelayIn(c)

Environment(c) ==
    \/ Finalize(c) \/ ProcWrite(c) \/ ProcExit(c)
    \/ PeerRequest(c) \/ PeerData(c) \/ PeerEOF(c) \/ PeerClose(c)

Next ==
    \/ PeerOpen
    \/ HandleNewChannel
    \/ \E c \in Chan : Controller(c) \/ Relay(c) \/ Environment(c)

Spec == Init /\ [][Next]_vars

\* The goroutines of the server are scheduled fairly; the peer and the
\* processes owe nothing.
FairSpec ==
    /\ Spec
    /\ WF_vars(HandleNewChannel)
    /\ \A c \in Chan : WF_vars(Controller(c)) /\ WF_vars(Relay(c))


(***************************************************************************)
(* The geometry conversions on their boundary values.  GeomSpec starts     *)
(* where a peer has opened a session channel and sent a pty-req whose      *)
(* columns and rows are drawn from Dims: the channel is accepted, the      *)
(* controller is in its request loop and the pty-req waits in the request  *)
(* stream.  From there the program runs as in Spec.                        *)
(***************************************************************************)

\* uint32 columns and rows around the limits of 16 bits: 0, the ends of
\* 1..65535, 2^16 (truncates to 0) and 2^31 - 1, the largest value the
\* checker's integers hold (truncates to 65535).
Dims == {0, 1, 65535, 65536, 2147483647}

GeomInit ==
    /\ chans = <<>>
    /\ nSent = 2
    /\ openLog = <<<<"session", "accepted">>>>
    /\ \E cols \in Dims, rows \in Dims :
         sess = [c \in Chan |->
                   IF c = 1
                   THEN [NoSession EXCEPT
                           !.pc = "loop",
                           !.controllers = 1,
                           !.reqs = <<Req("pty-req", "valid", <<cols, rows>>)>>]
                   ELSE NoSession]

GeomSpec == GeomInit /\ [][Next]_vars

(***************************************************************************)
(* Vocabulary of the properties.                                           *)
(***************************************************************************)

\* How often e occurs in the sequence q.
Count(q, e) == Cardinality({i \in 1..Len(q) : q[i] = e})

\* A request of one of the types T waits in the request stream of c.
Pending(c, T) == \E i \in 1..Len(sess[c].reqs) : sess[c].reqs[i].type \in T

\* A shell request with a non-empty payload waits in the request stream.
BadShellPending(c) ==
    \E i \in 1..Len(sess[c].reqs) :
        sess[c].reqs[i].type = "shell" /\ sess[c].reqs[i].payload # "empty"

\* A shell runs on c attached to a terminal handle that is open.
PtyLive(c) == sess[c].proc = "running" /\ sess[c].handle = "open"

\* The last request of q that recorded a geometry (a pty-req or a
\* window-change whose payload parses), <<0, 0>> when there is none.
RECURSIVE LastGeom(_)
LastGeom(q) ==
    IF q = <<>> THEN <<0, 0>>
    ELSE LET r == q[Len(q)]
         IN  IF r.type \in {"pty-req", "window-change"} /\ r.payload = "valid"
             THEN <<r.cols, r.rows>>
             ELSE LastGeom(SubSeq(q, 1, Len(q) - 1))

(***************************************************************************)
(* C1.  At most one shell/exec request starts a process on a channel, and  *)
(* once a run request has been accepted every later shell or exec request  *)
(* on the channel is rejected: it is taken from the request stream and     *)
(* answered with a failure reply, and starts no process.                   *)
(***************************************************************************)
C1_LaterRunRejected ==
    /\ [][\A c \in Chan :
            sess[c].spawned > 0 /\ Len(sess'[c].handled) > Len(sess[c].handled)
            => /\ sess'[c].sent = Append(sess[c].sent, "fail")
               /\ sess'[c].spawned = sess[c].spawned]_vars
    /\ [](\A c \in Chan : sess[c].spawned <= 1)
    /\ \A c \in Chan :
         (sess[c].spawned > 0 /\ Pending(c, {"shell", "exec"}))
            ~> ~Pending(c, {"shell", "exec"})

(***************************************************************************)
(* C2.  When the exit-status notification of a channel is sent, no output  *)
(* of the process is still undelivered (the peer has not closed).          *)
(***************************************************************************)
C2_OutputBeforeExitStatus ==
    \A c \in Chan :
        Count(sess[c].sent, "exit-status") > 0 /\ ~sess[c].peerClosed
        => ~sess[c].outBuf

(***************************************************************************)
(* C3.  If the peer closes the channel while a process runs on it, then    *)
(* eventually the process has terminated and no terminal handle of the     *)
(* channel is open.                                                        *)
(***************************************************************************)
C3_CloseReleases ==
    \A c \in Chan :
        (sess[c].peerClosed /\ sess[c].proc = "running")
            ~> (sess[c].proc # "running" /\ sess[c].handle # "open")

(***************************************************************************)
(* C4.  A window-change request that arrives while a shell runs attached   *)
(* to an open terminal handle is processed (taken from the request stream  *)
(* and applied) while the handle is live.                                  *)
(***************************************************************************)
C4_ResizeProcessed ==
    \A c \in Chan :
        (PtyLive(c) /\ Pending(c, {"window-change"}))
            ~> (~PtyLive(c) \/ ~Pending(c, {"window-change"}))


(***************************************************************************)
(* C5 as claimed.  After the requests [resize(80,24), terminal-request,    *)
(* run-interactive-command] the terminal started for the shell is sized    *)
(* 80 columns by 24 rows.                                                  *)
(***************************************************************************)
C5_ResizeThenPtyReqGives80x24 ==
    \A c \in Chan :
        LET h == sess[c].handled
        IN  /\ Len(h) = 3
            /\ h[1] = Req("window-change", "valid", <<80, 24>>)
            /\ h[2].type = "pty-req"
            /\ h[3].type = "shell"
            /\ sess[c].handle # "none"
            => sess[c].winsize = <<80, 24>>

(***************************************************************************)
(* C5 as amended.  The terminal allocated for the shell has the geometry   *)
(* recorded last before the shell request, by a resize or by the           *)
(* terminal-request (which overwrites an earlier resize with its own       *)
(* columns and rows): each value modulo 2^16 when both are greater than 0, *)
(* and no size is set otherwise.                                           *)
(***************************************************************************)
C5_LastGeometryApplied ==
    \A c \in Chan :
        sess[c].handle # "none"
        => LET g == LastGeom(sess[c].handled)
           IN  sess[c].winsize = IF g[1] > 0 /\ g[2] > 0
                                 THEN <<g[1] % 65536, g[2] % 65536>>
                                 ELSE <<0, 0>>

\* The terminal-request overwrote the resize: [resize(80,24),
\* terminal-request(65616,30), shell] started a terminal of 80 by 30.
C5_Witness ==
    \E c \in Chan :
        /\ sess[c].handled = <<Req("window-change", "valid", <<80, 24>>),
                               Req("pty-req", "valid", <<65616, 30>>),
                               Req("shell", "empty", <<0, 0>>)>>
        /\ sess[c].handle = "open"
        /\ sess[c].winsize = <<80, 30>>

(***************************************************************************)
(* C6.  Whenever the process of a channel has terminated, the controller   *)
(* eventually sends the exit-status notification and then closes the       *)
(* channel, whatever the result of the wait and whatever the peer does.    *)
(***************************************************************************)
C6_ExitReported ==
    \A c \in Chan :
        (sess[c].proc = "exited")
            ~> LET q == sess[c].sent
               IN  /\ sess[c].pc = "done"
                   /\ Len(q) >= 2
                   /\ q[Len(q) - 1] = "exit-status"
                   /\ q[Len(q)] = "close"

(***************************************************************************)
(* C7.  The exit-status notification of a process that exited normally     *)
(* with code N carries N as a 32-bit unsigned value: the big-endian bytes  *)
(* 0, 0, 0, N.                                                             *)
(***************************************************************************)
C7_ExitStatusIsExitCode ==
    \A c \in Chan :
        Count(sess[c].sent, "exit-status") > 0 /\ sess[c].outcome.kind = "exit"
        => sess[c].exitPayload = <<0, 0, 0, sess[c].outcome.code>>

\* An exec whose command exited with code 7 reported 7.
C7_Witness ==
    \E c \in Chan :
        /\ sess[c].mode = "exec"
        /\ sess[c].outcome = [kind |-> "exit", code |-> 7]
        /\ sess[c].sent = <<"ok", "exit-status", "close">>
        /\ sess[c].exitPayload = <<0, 0, 0, 7>>

(***************************************************************************)
(* C8.  A shell request with a non-empty payload is always rejected, in    *)
(* every session state: it is taken from the request stream and answered   *)
(* with a failure reply, and nothing else of the session changes.          *)
(***************************************************************************)
C8_NonEmptyShellRejected ==
    /\ [][\A c \in Chan :
            /\ Len(sess'[c].handled) > Len(sess[c].handled)
            /\ Head(sess[c].reqs).type = "shell"
            /\ Head(sess[c].reqs).payload # "empty"
            => sess'[c] = [sess[c] EXCEPT !.reqs = Tail(@),
                                          !.handled = Append(@, Head(sess[c].reqs)),
                                          !.sent = Append(@, "fail")]]_vars
    /\ \A c \in Chan : BadShellPending(c) ~> ~BadShellPending(c)

(***************************************************************************)
(* C9.  Every channel-open of a type other than "session" is rejected as   *)
(* an unknown channel type and gets no controller; every accepted session  *)
(* channel has exactly one controller; a pending channel-open can always   *)
(* be taken by the supervisor, also after a rejection.                     *)
(***************************************************************************)
C9_OnlySessionChannels ==
    /\ \A i \in 1..Len(openLog) :
         openLog[i][1] # "session" => openLog[i][2] = "UnknownChannelType"
    /\ \A c \in Chan :
         sess[c].controllers = IF c <= Count(openLog, <<"session", "accepted">>)
                               THEN 1 ELSE 0
    /\ \A c \in Chan : sess[c].pc # "none" <=> sess[c].controllers = 1
    /\ chans # <<>> => ENABLED HandleNewChannel

\* A channel-open was rejected and a later session channel was accepted.
C9_Witness ==
    /\ Len(openLog) = 2
    /\ openLog[1] = <<"direct-tcpip", "UnknownChannelType">>
    /\ openLog[2] = <<"session", "accepted">>
    /\ sess[1].controllers = 1
    /\ sess[2].controllers = 0

(***************************************************************************)
(* C10.  A shell or exec request whose terminal allocation or process      *)
(* start fails is answered with a failure reply and changes nothing else:  *)
(* the controller stays in its request loop with the terminal-requested    *)
(* flag, the geometry, the terminal handle and the process as before, the  *)
(* channel stays open, and no exit-status is sent for a process that was   *)
(* never started.                                                          *)
(***************************************************************************)
C10_StartFailureLeavesState ==
    /\ [][\A c \in Chan :
            sess'[c].startErrs > sess[c].startErrs
            => sess'[c] = [sess[c] EXCEPT !.reqs = Tail(@),
                                          !.handled = Append(@, Head(sess[c].reqs)),
                                          !.sent = Append(@, "fail"),
                                          !.startErrs = @ + 1]]_vars
    /\ [](\A c \in Chan : Count(sess[c].sent, "exit-status") <= sess[c].spawned)

\* After a failed start with a terminal requested, a later shell request
\* on the same channel was accepted.
C10_Witness ==
    \E c \in Chan :
        /\ sess[c].startErrs = 1
        /\ sess[c].ptyRequested
        /\ sess[c].spawned = 1
        /\ sess[c].sent = <<"ok", "fail", "ok">>

(***************************************************************************)
(* C11.  In every state in which a channel is terminated (its process has  *)
(* exited, the exit-status has been sent and the controller has closed the *)
(* channel) no terminal handle allocated for the channel is still open.    *)
(***************************************************************************)
C11_NoHandleOpenAfterTermination ==
    \A c \in Chan :
        (/\ sess[c].proc = "exited"
         /\ Count(sess[c].sent, "exit-status") = 1
         /\ sess[c].pc = "done")
        => sess[c].handle # "open"

\* The controller of c takes a request from its request stream in this step.
Takes(c) == Len(sess'[c].handled) = Len(sess[c].handled) + 1

\* A pty-req, window-change or exec request whose payload does not parse.
Malformed(r) == r.type \in {"pty-req", "window-change", "exec"} /\ ~Unmarshal(r)

(***************************************************************************)
(* C12.  A step in which the controller takes a pty-req, window-change or  *)
(* exec request whose payload does not parse changes nothing but that      *)
(* request: the request leaves the stream, a pty-req or exec is answered   *)
(* with one failure reply and a window-change with none, and the flag, the *)
(* geometry, the terminal handle, the process and the position of the      *)
(* controller (in its request loop, the channel open) are as before.       *)
(***************************************************************************)
C12_MalformedAffectsOnlyItself ==
    [][\A c \in Chan :
         Takes(c) /\ Malformed(Head(sess[c].reqs))
         => sess'[c] = [sess[c] EXCEPT
                           !.reqs = Tail(@),
                           !.handled = Append(@, Head(sess[c].reqs)),
                           !.sent = IF Head(sess[c].reqs).type = "window-change"
                                    THEN @ ELSE Append(@, "fail")]]_vars

\* A malformed pty-req, a malformed window-change and a malformed exec were
\* taken in some order: two failure replies, the controller in its request
\* loop, no process.
C12_Witness ==
    \E c \in Chan :
        /\ Len(sess[c].handled) = 3
        /\ \A i \in 1..3 : Malformed(sess[c].handled[i])
        /\ {sess[c].handled[i].type : i \in 1..3} = {"pty-req", "window-change", "exec"}
        /\ sess[c].sent = <<"fail", "fail">>
        /\ sess[c].pc = "loop"
        /\ sess[c].proc = "none"

\* The request types the switch of the request loop names (main.go:116-250).
KnownTypes == {"pty-req", "window-change", "shell", "exec"}

\* A request of a type the switch does not name waits in the request stream.
UnknownPending(c) ==
    \E i \in 1..Len(sess[c].reqs) : sess[c].reqs[i].type \notin KnownTypes

(***************************************************************************)
(* C13.  A request of a type other than pty-req, window-change, shell and  *)
(* exec is rejected in any session state: it is taken from the request     *)
(* stream and answered with a failure reply, and nothing else of the       *)
(* session changes (no process, no terminal handle, the geometry and the   *)
(* flag as before, the channel not closed).                                *)
(***************************************************************************)
C13_UnknownTypeRejected ==
    /\ [][\A c \in Chan :
            Takes(c) /\ Head(sess[c].reqs).type \notin KnownTypes
            => sess'[c] = [sess[c] EXCEPT !.reqs = Tail(@),
                                          !.handled = Append(@, Head(sess[c].reqs)),
                                          !.sent = Append(@, "fail")]]_vars
    /\ \A c \in Chan : UnknownPending(c) ~> ~UnknownPending(c)

(***************************************************************************)
(* C14.  Once the process of a channel has terminated, a window-change     *)
(* request is a no-op, whether the terminal handle is still open or        *)
(* released: no step takes a request from the stream, so no Setsize is     *)
(* made (the size of the terminal stays as it was), no reply is sent (the  *)
(* only messages still sent are the exit-status and the close), and the    *)
(* recorded geometry is unchanged.                                         *)
(***************************************************************************)
C14_ResizeAfterExitIsNoOp ==
    [][\A c \in Chan :
         sess[c].proc = "exited"
         => /\ ~Takes(c)
            /\ sess'[c].winsize = sess[c].winsize
            /\ sess'[c].ptyCols = sess[c].ptyCols
            /\ sess'[c].ptyRows = sess[c].ptyRows
            /\ sess'[c].sent \in {sess[c].sent,
                                  Append(sess[c].sent, "exit-status"),
                                  Append(sess[c].sent, "close")}]_vars

\* A window-change with another size waits on a channel whose shell has
\* exited and whose terminal handle has been released: the terminal kept the
\* size of the pty-req and the peer got the two accept replies, the
\* exit-status and the close, nothing else.
C14_Witness ==
    \E c \in Chan :
        /\ sess[c].proc = "exited"
        /\ sess[c].handle = "released"
        /\ sess[c].reqs = <<Req("window-change", "valid", <<65616, 30>>)>>
        /\ sess[c].winsize = <<80, 24>>
        /\ sess[c].sent = <<"ok", "ok", "exit-status", "close">>

(***************************************************************************)
(* C15.  Channels are isolated: no step changes the state of more than one *)
(* channel, so whatever a step does on one channel (a rejected request, a  *)
(* failed start, a process exit, the close of the channel) leaves the      *)
(* flag, the geometry, the terminal handle, the process, the streams and   *)
(* the position of the controller of every other channel as they were.     *)
(***************************************************************************)
C15_ChannelsIsolated ==
    [][\A c, d \in Chan :
         c # d => sess'[c] = sess[c] \/ sess'[d] = sess[d]]_vars

\* Two channels of one connection: on the first a process ran and exited
\* and the controller closed the channel; the process of the second is
\* running, its channel open and its only message the accept reply.
C15_Witness ==
    /\ sess[1].pc = "done"
    /\ sess[1].proc = "exited"
    /\ sess[2].pc = "wait"
    /\ sess[2].proc = "running"
    /\ sess[2].sent = <<"ok">>
    /\ ~sess[2].peerClosed

\* A pty-req whose payload parsed is among the requests of q.
PtyAccepted(q) ==
    \E i \in 1..Len(q) : q[i].type = "pty-req" /\ Unmarshal(q[i])

ExecAccepted(c) == sess[c].mode = "exec"

(***************************************************************************)
(* C17.  An accepted exec never allocates or attaches a terminal handle,   *)
(* whether or not a pty-req was accepted before it: on a channel whose     *)
(* process was started by an exec request there is no terminal handle and  *)
(* no pty file and no size was ever set on a terminal, in every state up   *)
(* to and after the close of the channel.                                  *)
(***************************************************************************)
C17_ExecHasNoTerminal ==
    \A c \in Chan :
        ExecAccepted(c)
        => /\ sess[c].handle = "none"
           /\ sess[c].ptyFile = "nil"
           /\ sess[c].winsize = <<0, 0>>

\* A pty-req with a geometry was accepted, then an exec: the command has
\* run, the controller has closed the channel, and there was no terminal.
C17_Witness ==
    \E c \in Chan :
        /\ ExecAccepted(c)
        /\ sess[c].ptyRequested
        /\ sess[c].ptyCols = 80
        /\ sess[c].pc = "done"
        /\ sess[c].handle = "none"
        /\ sess[c].sent = <<"ok", "ok", "exit-status", "close">>

(***************************************************************************)
(* C18.  Reply discipline: a step in which the controller takes a request  *)
(* other than a window-change sends exactly one reply, an accept or a      *)
(* reject; a step in which it takes a window-change sends nothing, whether *)
(* or not the payload parses; and no other step sends a reply, so no       *)
(* request is ever answered twice.                                         *)
(***************************************************************************)
C18_ReplyDiscipline ==
    [][\A c \in Chan :
         IF Takes(c)
         THEN IF Head(sess[c].reqs).type = "window-change"
              THEN sess'[c].sent = sess[c].sent
              ELSE sess'[c].sent \in {Append(sess[c].sent, "ok"),
                                      Append(sess[c].sent, "fail")}
         ELSE sess'[c].sent \in {sess[c].sent,
                                 Append(sess[c].sent, "exit-status"),
                                 Append(sess[c].sent, "close")}]_vars

\* A window-change that parses, one that does not and a shell request were
\* taken: the accept reply of the shell is the only reply.
C18_Witness ==
    \E c \in Chan :
        /\ Len(sess[c].handled) = 3
        /\ sess[c].handled[1].type = "window-change" /\ Unmarshal(sess[c].handled[1])
        /\ sess[c].handled[2].type = "window-change" /\ ~Unmarshal(sess[c].handled[2])
        /\ sess[c].handled[3].type = "shell"
        /\ sess[c].sent = <<"ok">>

C20_ExitStatusOnceBeforeClose ==
    \A c \in Chan :
        LET sent == sess[c].sent
        IN  /\ Count(sent, "exit-status") <= 1
            /\ Count(sent, "close") <= 1
            /\ \A i \in 1..Len(sent) :
                 /\ sent[i] = "exit-status"
                    => i > 1 /\ sent[i - 1] = "ok" /\ sess[c].spawned = 1
                 /\ sent[i] = "close" => i = Len(sent)
            /\ sess[c].spawned = 0 => Count(sent, "exit-status") = 0
            /\ sess[c].pc = "done" <=> Count(sent, "close") = 1

\* Two channels the controller has closed: the peer closed the first
\* without any accepted run, and the close is all that was sent on it; on
\* the second a process ran and its exit-status stands between the accept
\* reply and the close.
C20_Witness ==
    /\ sess[1].spawned = 0
    /\ sess[1].sent = <<"close">>
    /\ sess[2].spawned = 1
    /\ sess[2].sent = <<"ok", "exit-status", "close">>

(***************************************************************************)
(* C21.  The size of the terminal allocated for a shell is the recorded    *)
(* 32-bit columns and rows each reduced modulo 2^16, applied only when     *)
(* both recorded values are greater than 0.  Hence with columns and rows   *)
(* in 1..65535 the terminal has exactly those values, with columns or rows *)
(* 0 no size is set, and with a value of 65536 or more the terminal has a  *)
(* size different from the recorded one.                                   *)
(***************************************************************************)
C21_GeometryTruncatedTo16Bits ==
    \A c \in Chan :
        sess[c].handle # "none"
        => LET cols == sess[c].ptyCols
               rows == sess[c].ptyRows
               size == sess[c].winsize
           IN  /\ size = IF cols > 0 /\ rows > 0
                         THEN <<cols % 65536, rows % 65536>>
                         ELSE <<0, 0>>
               /\ cols \in 1..65535 /\ rows \in 1..65535 => size = <<cols, rows>>
               /\ cols = 0 \/ rows = 0 => size = <<0, 0>>
               /\ cols >= 65536 \/ rows >= 65536 => size # <<cols, rows>>

\* A pty-req of 65536 columns by 65535 rows was accepted and the shell
\* started: the terminal has 0 columns and 65535 rows.
C21_Witness ==
    \E c \in Chan :
        /\ sess[c].handle = "open"
        /\ sess[c].ptyCols = 65536
        /\ sess[c].ptyRows = 65535
        /\ sess[c].winsize = <<0, 65535>>

====
